---- MODULE Spec2Model ----
(***************************************************************************)
(* The action execution scheduler of senlin/engine/scheduler.py: the      *)
(* ThreadGroupManager, the ActionProc runner, start_action and the         *)
(* control-flag helpers.  The database API (db_api), the thread group      *)
(* (threadgroup.ThreadGroup) and the action's execute() are collaborators  *)
(* of the scheduler; they are modelled from their documented contract.     *)
(***************************************************************************)
EXTENDS Integers, FiniteSets, Sequences, TLC

\* ------------------------------------------------------------------ bounds
MaxTime == 3
MaxTimeout == 1
MaxTasks == 3
MaxRetries == 2
MaxInterval == 3

\* --------------------------------------------------------------- constants
Engines == {"e1", "e2"}
Actions == {"a1", "a2"}
TaskIds == 1..MaxTasks

\* ACTION_CONTROL_REQUEST, scheduler.py lines 29-33
ACTION_CANCEL == "cancel"
ACTION_SUSPEND == "suspend"
ACTION_RESUME == "resume"
ACTION_TIMEOUT == "timeout"

\* action.RES_* : the outcomes of one execute() call
RES_OK == "OK"
RES_ERROR == "ERROR"
RES_RETRY == "RETRY"
RES_CANCEL == "CANCEL"
RES_TIMEOUT == "TIMEOUT"
Results == {RES_OK, RES_ERROR, RES_RETRY, RES_CANCEL, RES_TIMEOUT}

\* ActionProc(context, action, wait_time=1, **kwargs): the default wait_time,
\* which start_action_thread leaves in place
WaitTime == 1

\* cfg.CONF.periodic_interval, the configured period of the periodic tasks
PeriodicInterval == 2

\* the functions callers hand to add_timer
Funcs == {"f1", "f2"}

\* Python's None for: the lock owner, the control flag, a thread handle,
\* action.timeout.  NoTimeout is below every number, as None is in the
\* comparison `time_lapse > action.timeout` of Python 2.
NoOwner == "none"
NoFlag == "none"
NoThread == 0
NoTimeout == -1

VARIABLES
    now,        \* wallclock()
    owner,      \* store: owner[a], the engine holding the lock of action a
    status,     \* store: status[a], the persisted status of action a
    control,    \* store: control[a], the pending control flag of action a
    timeout,    \* store: timeout[a], the action's timeout (NoTimeout: unset)
    call,       \* call[e]: the start_action call in progress in engine e
    task,       \* task[t]: the green thread t running ActionProc
    threads,    \* threads[e]: ThreadGroupManager.threads of engine e, the
                \* dict {action.id: th} as a set of pairs <<action.id, th>>
    group,      \* group[e]: ThreadGroupManager.group.threads of engine e
    stopping,   \* stopping[e]: the ThreadGroupManager.stop call of engine e
    waiter,     \* the caller of action_wait(action)
    timers      \* timers[e]: the timers of ThreadGroupManager.group

vars == <<now, owner, status, control, timeout, call, task, threads, group,
          stopping, waiter, timers>>

\* ------------------------------------------------------------------- state
\* call[e]: pc, the action and its start_time, the value returned (ret), and
\* two facts about the call: raced, another engine's call for the same action
\* overlapped it; unlocked, the lock was free when the call began
IdleCall == [pc |-> "idle", act |-> "none", start |-> 0, ret |-> "none",
             raced |-> FALSE, unlocked |-> FALSE]
\* task[t]: pc, the engine and the action, action.start_time, the result of
\* the last execute() (res), the statuses ActionProc has persisted (wrote),
\* whether the linked callbacks have run (resolved); while the loop of
\* ActionProc is retrying, the wallclock() at which the last execute()
\* returned (at) and the number of RES_RETRY results so far, counted up to
\* MaxRetries (tries)
FreeTask == [pc |-> "free", eng |-> "none", act |-> "none", start |-> 0,
             res |-> "none", wrote |-> <<>>, resolved |-> FALSE,
             at |-> 0, tries |-> 0]
IdleStop == [pc |-> "idle", threads |-> {}, links_done |-> {}]
\* the action_wait call: the action and its start_time, the flag that the last
\* action_control_flag gave (read) and the wallclock() of that read (at)
IdleWaiter == [pc |-> "idle", act |-> "none", start |-> 0, read |-> "unread",
               at |-> 0]

\* a timer of the thread group: the function it runs, the interval its
\* caller asked of add_timer, the period the group runs it with, and the
\* wallclock() of its last run (of its registration before the first)
Timer(func, interval, period, last) ==
    [func |-> func, interval |-> interval, period |-> period, last |-> last]

\* line 46: self.add_timer(cfg.CONF.periodic_interval, self._service_task)
ServiceTimer ==
    Timer("_service_task", PeriodicInterval, PeriodicInterval, 0)

\* ThreadGroupManager.__init__ and the store before any call
Init ==
    /\ now = 0
    /\ owner = [a \in Actions |-> NoOwner]
    /\ status = [a \in Actions |-> "INIT"]
    /\ control = [a \in Actions |-> NoFlag]
    /\ timeout \in [Actions -> {NoTimeout} \cup 0..MaxTimeout]
    /\ call = [e \in Engines |-> IdleCall]
    /\ task = [t \in TaskIds |-> FreeTask]
    /\ threads = [e \in Engines |-> {}]
    /\ group = [e \in Engines |-> {}]
    /\ stopping = [e \in Engines |-> IdleStop]
    /\ waiter = IdleWaiter
    /\ timers = [e \in Engines |-> {ServiceTimer}]

\* wallclock() advances
Tick ==
    /\ now < MaxTime
    /\ now' = now + 1
    /\ UNCHANGED <<owner, status, control, timeout, timers, call, task, threads,
                   group, stopping, waiter>>

\* ------------------------------------------------------- the dict threads
HasKey(m, k) == \E p \in m : p[1] = k
MapGet(m, k) == (CHOOSE p \in m : p[1] = k)[2]
MapSet(m, k, v) == {p \in m : p[1] # k} \cup {<<k, v>>}
MapPop(m, k) == {p \in m : p[1] # k}

\* ---------------------------------------------------------- Lock Protocol
\* db_api.action_acquire(context, action_id, owner, timestamp): true iff the
\* claim succeeds, that is iff the lock is not held; atomic in the store.
action_acquire(a, e) == owner[a] = NoOwner

\* db_api.action_release(context, action_id, owner): clears the ownership,
\* only for the current owner; nothing to do when already released.
action_release(a, e) ==
    IF owner[a] = e THEN [owner EXCEPT ![a] = NoOwner] ELSE owner

\* ------------------------------------------------------------ start_action
\* Another engine's start_action call for the same action is in progress.
Racing(e, a) ==
    \E o \in Engines \ {e} : call[o].pc # "idle" /\ call[o].act = a

\* lines 159-161: action = Action.load(...); action.start_time = wallclock()
StartActionLoad(e, a) ==
    /\ call[e].pc = "idle"
    /\ call' = [o \in Engines |->
                  IF o = e
                  THEN [pc |-> "loaded", act |-> a, start |-> now,
                        ret |-> "pending", raced |-> Racing(e, a),
                        unlocked |-> owner[a] = NoOwner]
                  ELSE IF call[o].pc # "idle" /\ call[o].act = a
                  THEN [call[o] EXCEPT !.raced = TRUE]
                  ELSE call[o]]
    /\ UNCHANGED <<now, owner, status, control, timeout, timers, task, threads,
                   group, stopping, waiter>>

\* start_action without the test of line 164: the thread is started whatever
\* action_acquire returned
StartActionAcquire_Unchecked(e) ==
    /\ call[e].pc = "loaded"
    /\ owner' = IF action_acquire(call[e].act, e)
                THEN [owner EXCEPT ![call[e].act] = e] ELSE owner
    /\ call' = [call EXCEPT ![e].pc = "locked"]
    /\ UNCHANGED <<now, status, control, timeout, timers, task, threads, group,
                   stopping, waiter>>

\* lines 162-164 and 173-175: the acquire and, when it fails, return False
StartActionAcquire(e) ==
    /\ call[e].pc = "loaded"
    /\ LET result == action_acquire(call[e].act, e) IN
         IF result
         THEN /\ owner' = [owner EXCEPT ![call[e].act] = e]
              /\ call' = [call EXCEPT ![e].pc = "locked"]
         ELSE /\ owner' = owner
              /\ call' = [call EXCEPT ![e].pc = "idle", ![e].start = 0,
                                      ![e].ret = "False"]
    /\ UNCHANGED <<now, status, control, timeout, timers, task, threads, group,
                   stopping, waiter>>

\* self.group.add_thread(ActionProc, context, action): the handle of the new
\* green thread, or none when the spawn fails.
FreeIds == {t \in TaskIds : task[t].pc = "free"}
add_thread ==
    {NoThread} \cup
    (IF FreeIds = {} THEN {}
     ELSE {CHOOSE t \in FreeIds : \A u \in FreeIds : t <= u})

NewTask(e, a, start) ==
    [pc |-> "start", eng |-> e, act |-> a, start |-> start, res |-> "none",
     wrote |-> <<>>, resolved |-> FALSE, at |-> 0, tries |-> 0]

\* lines 79-80: th = self.start(ActionProc, ...); self.threads[action.id] = th
start_action_thread(e, a, start, th) ==
    /\ threads' = [threads EXCEPT ![e] = MapSet(@, a, th)]
    /\ IF th # NoThread
       THEN /\ task' = [task EXCEPT ![th] = NewTask(e, a, start)]
            /\ group' = [group EXCEPT ![e] = @ \cup {th}]
       ELSE UNCHANGED <<task, group>>

\* line 81: th.link(release, context, action) raises AttributeError when th
\* is None, and start_action_thread does not reach its return.
LinkRaises(th) == th = NoThread

\* lines 66-82: tgm.start_action_thread(context, action) called on its own,
\* without start_action and so without the lock; self.threads is not looked
\* at before the spawn
StartActionThread(e, a) ==
    /\ \E th \in add_thread : start_action_thread(e, a, now, th)
    /\ UNCHANGED <<now, owner, status, control, timeout, timers, call, stopping,
                   waiter>>

\* lines 167-172: the spawn after a successful acquire
StartActionSpawn(e) ==
    /\ call[e].pc = "locked"
    /\ \E th \in add_thread :
         /\ start_action_thread(e, call[e].act, call[e].start, th)
         /\ IF LinkRaises(th)
            THEN /\ owner' = owner
                 /\ call' = [call EXCEPT ![e].pc = "idle", ![e].start = 0,
                                         ![e].ret = "raised"]
            ELSE IF th = NoThread
            THEN /\ owner' = action_release(call[e].act, e)
                 /\ call' = [call EXCEPT ![e].pc = "idle", ![e].start = 0,
                                         ![e].ret = "None"]
            ELSE /\ owner' = owner
                 /\ call' = [call EXCEPT ![e].pc = "idle", ![e].start = 0,
                                         ![e].ret = "True"]
    /\ UNCHANGED <<now, status, control, timeout, timers, stopping, waiter>>

\* -------------------------------------------------------------- ActionProc
\* ActionProc marking the action failed in its last branch, the timeout
ActionProcMarks_TimeoutFails(result) ==
    IF result = RES_OK THEN <<"SUCCEEDED">>
    ELSE IF result = RES_CANCEL THEN <<"CANCELLED">>
    ELSE <<"FAILED">>

\* lines 132-147: the status ActionProc persists for a result, as the
\* sequence of db_api.action_mark_* calls it makes
ActionProcMarks(result) ==
    IF result = RES_ERROR THEN <<"FAILED">>
    ELSE IF result = RES_OK THEN <<"SUCCEEDED">>
    ELSE IF result = RES_CANCEL THEN <<"CANCELLED">>
    ELSE <<>>

\* db_api.action_mark_failed / _succeeded / _cancelled(context, id, ts)
action_mark(a, marks) ==
    IF marks = <<>> THEN status ELSE [status EXCEPT ![a] = marks[Len(marks)]]

\* the outcomes action.execute() may return: the step is opaque
execute(t) == Results

\* one more RES_RETRY, counted up to MaxRetries
Retried(n) == IF n < MaxRetries THEN n + 1 ELSE n

\* ActionProc looking at the control flag before each step, and ending as
\* cancelled when cancel is pending
ActionProcExecute_ChecksCancel(t) ==
    /\ task[t].pc \in {"start", "retry"}
    /\ \E result \in (IF control[task[t].act] = ACTION_CANCEL
                       THEN {RES_CANCEL} ELSE execute(t)) :
         IF result = RES_RETRY
         THEN /\ task' = [task EXCEPT ![t].pc = "retry", ![t].res = result,
                                      ![t].at = now,
                                      ![t].tries = Retried(@)]
              /\ status' = status
         ELSE /\ task' = [task EXCEPT ![t].pc = "done", ![t].res = result,
                                      ![t].wrote = ActionProcMarks(result),
                                      ![t].at = 0, ![t].tries = 0]
              /\ status' = action_mark(task[t].act, ActionProcMarks(result))
    /\ UNCHANGED <<now, owner, control, timeout, timers, call, threads, group,
                   stopping, waiter>>

\* ActionProc with the bound on retries of the TODO of line 126: after
\* MaxRetries RES_RETRY results it gives up and marks the action failed
ActionProcExecute_MaxRetries(t) ==
    /\ task[t].pc \in {"start", "retry"}
    /\ \E result \in execute(t) :
         IF result = RES_RETRY /\ task[t].tries < MaxRetries
         THEN /\ task' = [task EXCEPT ![t].pc = "retry", ![t].res = result,
                                      ![t].at = now,
                                      ![t].tries = Retried(@)]
              /\ status' = status
         ELSE LET marks == ActionProcMarks(IF result = RES_RETRY
                                           THEN RES_ERROR ELSE result) IN
              /\ task' = [task EXCEPT ![t].pc = "done", ![t].res = result,
                                      ![t].wrote = marks,
                                      ![t].at = 0, ![t].tries = 0]
              /\ status' = action_mark(task[t].act, marks)
    /\ UNCHANGED <<now, owner, control, timeout, timers, call, threads, group,
                   stopping, waiter>>

\* lines 125-130: one action.execute(), the first or one of the while loop;
\* lines 132-147 when its result is not RES_RETRY
ActionProcExecute(t) ==
    /\ task[t].pc \in {"start", "retry"}
    /\ \E result \in execute(t) :
         IF result = RES_RETRY
         THEN /\ task' = [task EXCEPT ![t].pc = "retry", ![t].res = result,
                                      ![t].at = now,
                                      ![t].tries = Retried(@)]
              /\ status' = status
         ELSE /\ task' = [task EXCEPT ![t].pc = "done", ![t].res = result,
                                      ![t].wrote = ActionProcMarks(result),
                                      ![t].at = 0, ![t].tries = 0]
              /\ status' = action_mark(task[t].act, ActionProcMarks(result))
    /\ UNCHANGED <<now, owner, control, timeout, timers, call, threads, group,
                   stopping, waiter>>

\* --------------------------------------------------- completion callbacks
Exited(t) == task[t].pc \in {"done", "killed"}
Active(t) == task[t].pc \in {"start", "retry"}

\* The callbacks of thread t with a release that leaves self.threads alone
ResolveLinks_KeepsEntry(t) ==
    /\ Exited(t)
    /\ ~task[t].resolved
    /\ group' = [group EXCEPT ![task[t].eng] = @ \ {t}]
    /\ stopping' = [stopping EXCEPT ![task[t].eng].links_done =
                      IF t \in stopping[task[t].eng].threads
                      THEN @ \cup {t} ELSE @]
    /\ task' = [task EXCEPT ![t].resolved = TRUE]
    /\ UNCHANGED <<now, owner, status, control, timeout, timers, call, threads,
                   waiter>>

\* line 77: self.threads.pop(action.id) raises KeyError when the key is not
\* in the dict
PopRaises(e, a) == ~HasKey(threads[e], a)

\* The callbacks link()ed to green thread t run once it has exited, in the
\* order of their link(): the group's own (it drops t from group.threads),
\* release of lines 74-77 (self.threads.pop(action.id)) and mark_done of
\* lines 105-106.  A release that raises leaves the dict as it is and ends
\* the run of the callbacks: mark_done is not called.
ResolveLinks(t) ==
    /\ Exited(t)
    /\ ~task[t].resolved
    /\ LET e == task[t].eng IN
         /\ group' = [group EXCEPT ![e] = @ \ {t}]
         /\ threads' = [threads EXCEPT ![e] =
                          IF PopRaises(e, task[t].act)
                          THEN @ ELSE MapPop(@, task[t].act)]
         /\ stopping' = [stopping EXCEPT ![e].links_done =
                           IF t \in stopping[e].threads
                              /\ ~PopRaises(e, task[t].act)
                           THEN @ \cup {t} ELSE @]
    /\ task' = [task EXCEPT ![t].resolved = TRUE]
    /\ UNCHANGED <<now, owner, status, control, timeout, timers, call, waiter>>

\* ------------------------------------------------ ThreadGroupManager.stop
\* self.group.stop(graceful): a graceful stop lets the green threads run to
\* their end, any other stop kills them where they are
group_stop(e, graceful) ==
    [t \in TaskIds |->
       IF ~graceful /\ t \in group[e] /\ Active(t)
       THEN [task[t] EXCEPT !.pc = "killed"] ELSE task[t]]

\* line 98: self.group.stop(graceful)
Stop(e, graceful) ==
    /\ stopping[e].pc = "idle"
    /\ task' = group_stop(e, graceful)
    /\ stopping' = [stopping EXCEPT ![e].pc = "waiting"]
    /\ UNCHANGED <<now, owner, status, control, timeout, timers, call, threads,
                   group, waiter>>

\* self.group.wait() returns once every green thread of the group has exited
group_wait(e) == \A t \in group[e] : Exited(t)

\* lines 99-109: group.wait() returns; threads = self.group.threads[:];
\* links_done = {th: False}; th.link(mark_done, th) for each
StopWait(e) ==
    /\ stopping[e].pc = "waiting"
    /\ group_wait(e)
    /\ stopping' = [stopping EXCEPT ![e].pc = "draining",
                                    ![e].threads = group[e],
                                    ![e].links_done = {}]
    /\ UNCHANGED <<now, owner, status, control, timeout, timers, call, task,
                   threads, group, waiter>>

\* lines 111-112: while not all(links_done.values()): eventlet.sleep()
AllLinksDone(e) == stopping[e].links_done = stopping[e].threads

StopDrain(e) ==
    /\ stopping[e].pc = "draining"
    /\ AllLinksDone(e)
    /\ stopping' = [stopping EXCEPT ![e] =
                      [pc |-> "returned", threads |-> {}, links_done |-> {}]]
    /\ UNCHANGED <<now, owner, status, control, timeout, timers, call, task,
                   threads, group, waiter>>

\* ------------------------------------------------------ control requests
\* db_api.action_control(context, action_id, value): the flag is overwritten
action_control(a, value) == [control EXCEPT ![a] = value]

\* db_api.action_control_check(context, action_id): the pending flag
action_control_check(a) == control[a]

\* lines 178-186
suspend_action(a) ==
    /\ control' = action_control(a, ACTION_SUSPEND)
    /\ UNCHANGED <<now, owner, status, timeout, timers, call, task, threads,
                   group, stopping, waiter>>

\* lines 189-197
resume_action(a) ==
    /\ control' = action_control(a, ACTION_RESUME)
    /\ UNCHANGED <<now, owner, status, timeout, timers, call, task, threads,
                   group, stopping, waiter>>

\* lines 200-208
cancel_action(a) ==
    /\ control' = action_control(a, ACTION_CANCEL)
    /\ UNCHANGED <<now, owner, status, timeout, timers, call, task, threads,
                   group, stopping, waiter>>

\* action_timeout comparing with >= : an action times out at its timeout
action_timeout_AtLeast(a, start_time) == (now - start_time) >= timeout[a]

\* lines 252-260: time_lapse = wallclock() - action.start_time;
\* time_lapse > action.timeout
action_timeout(a, start_time) == (now - start_time) > timeout[a]

\* action_control_flag looking at the control flag before the timeout
action_control_flag_FlagFirst(a, start_time) ==
    IF action_control_check(a) # NoFlag
    THEN action_control_check(a)
    ELSE IF timeout[a] # NoTimeout /\ action_timeout(a, start_time)
    THEN ACTION_TIMEOUT
    ELSE NoFlag

\* lines 211-222
action_control_flag(a, start_time) ==
    IF timeout[a] # NoTimeout /\ action_timeout(a, start_time)
    THEN ACTION_TIMEOUT
    ELSE action_control_check(a)

\* lines 225-249
action_cancelled(a, start_time) ==
    action_control_flag(a, start_time) = ACTION_CANCEL
action_suspended(a, start_time) ==
    action_control_flag(a, start_time) = ACTION_SUSPEND
action_resumed_AnyFlag(a, start_time) ==
    action_control_flag(a, start_time) # NoFlag
action_resumed(a, start_time) ==
    action_control_flag(a, start_time) = ACTION_RESUME

\* -------------------------------------------------------------- action_wait
\* a step of some action calls action_wait(action); the action was started
\* at start_time
ActionWaitCall(a, start_time) ==
    /\ waiter.pc \in {"idle", "returned"}
    /\ waiter' = [pc |-> "checking", act |-> a, start |-> start_time,
                  read |-> "unread", at |-> 0]
    /\ UNCHANGED <<now, owner, status, control, timeout, timers, call, task,
                   threads, group, stopping>>

\* action_wait with a read that consumes the flag it has read
ActionWaitCheck_ClearsFlag ==
    /\ waiter.pc = "checking"
    /\ waiter' = [waiter EXCEPT
                    !.read = action_control_flag(waiter.act, waiter.start),
                    !.at = now,
                    !.pc = IF action_resumed(waiter.act, waiter.start)
                           THEN "returned" ELSE "sleeping"]
    /\ control' = action_control(waiter.act, NoFlag)
    /\ UNCHANGED <<now, owner, status, timeout, timers, call, task, threads,
                   group, stopping>>

\* line 278: while not action_resumed(action); read is the flag that
\* action_control_flag returned to it
ActionWaitCheck ==
    /\ waiter.pc = "checking"
    /\ waiter' = [waiter EXCEPT
                    !.read = action_control_flag(waiter.act, waiter.start),
                    !.at = now,
                    !.pc = IF action_resumed(waiter.act, waiter.start)
                           THEN "returned" ELSE "sleeping"]
    /\ UNCHANGED <<now, owner, status, control, timeout, timers, call, task,
                   threads, group, stopping>>

\* lines 263-272 and 279: reschedule(action, sleep_time=1) returns
reschedule ==
    /\ waiter.pc = "sleeping"
    /\ waiter' = [waiter EXCEPT !.pc = "checking"]
    /\ UNCHANGED <<now, owner, status, control, timeout, timers, call, task,
                   threads, group, stopping>>

\* ------------------------------------------------------------------ timers
\* self.group.add_timer(period, func): the group runs func every period,
\* the first time one period after the registration
group_add_timer(e, period, func, interval) ==
    [timers EXCEPT ![e] = @ \cup {Timer(func, interval, period, now)}]

\* lines 84-90: add_timer(interval, func) registers func with the group, with
\* cfg.CONF.periodic_interval as its period
AddTimer(e, interval, func) ==
    /\ \A tm \in timers[e] : tm.func # func
    /\ timers' = group_add_timer(e, PeriodicInterval, func, interval)
    /\ UNCHANGED <<now, owner, status, control, timeout, call, task, threads,
                   group, stopping, waiter>>

\* the group runs a timer whose period has passed since its last run
TimerRun(e, tm) ==
    /\ tm \in timers[e]
    /\ now >= tm.last + tm.period
    /\ timers' = [timers EXCEPT ![e] =
                     (@ \ {tm}) \cup {[tm EXCEPT !.last = @ + tm.period]}]
    /\ UNCHANGED <<now, owner, status, control, timeout, call, task, threads,
                   group, stopping, waiter>>

\* lines 92-93: stop_timers, self.group.stop_timers()
StopTimers(e) ==
    /\ timers[e] # {}
    /\ timers' = [timers EXCEPT ![e] = {}]
    /\ UNCHANGED <<now, owner, status, control, timeout, call, task, threads,
                   group, stopping, waiter>>

\* ----------------------------------------------------------- specifications
\* The fleet: every engine starts actions and runs them; none has a timeout.
InitFleet == Init /\ timeout = [a \in Actions |-> NoTimeout]

Next ==
    \/ \E e \in Engines, a \in Actions : StartActionLoad(e, a)
    \/ \E e \in Engines : StartActionAcquire(e)
    \/ \E e \in Engines : StartActionSpawn(e)
    \/ \E t \in TaskIds : ActionProcExecute(t)
    \/ \E t \in TaskIds : ResolveLinks(t)

Spec == InitFleet /\ [][Next]_vars

\* One engine running actions that have timeouts, while the clock advances.
TheEngine == "e1"

NextRun ==
    \/ Tick
    \/ \E a \in Actions : StartActionLoad(TheEngine, a)
    \/ StartActionAcquire(TheEngine)
    \/ StartActionSpawn(TheEngine)
    \/ \E t \in TaskIds : ActionProcExecute(t)
    \/ \E t \in TaskIds : ResolveLinks(t)

SpecRun == Init /\ [][NextRun]_vars

\* One engine starting and running actions, and stopping its thread group.
NextStop ==
    \/ \E a \in Actions : StartActionLoad(TheEngine, a)
    \/ StartActionAcquire(TheEngine)
    \/ StartActionSpawn(TheEngine)
    \/ \E t \in TaskIds : ActionProcExecute(t)
    \/ \E t \in TaskIds : ResolveLinks(t)
    \/ \E graceful \in BOOLEAN : Stop(TheEngine, graceful)
    \/ StopWait(TheEngine)
    \/ StopDrain(TheEngine)

SpecStop == InitFleet /\ [][NextStop]_vars

\* The control requests of an action and a step waiting in action_wait.
NextCtl ==
    \/ Tick
    \/ \E a \in Actions : suspend_action(a)
    \/ \E a \in Actions : resume_action(a)
    \/ \E a \in Actions : cancel_action(a)
    \/ \E a \in Actions, s \in 0..now : ActionWaitCall(a, s)
    \/ ActionWaitCheck
    \/ reschedule

SpecCtl == Init /\ [][NextCtl]_vars

\* One ThreadGroupManager as its callers drive it: start_action_thread calls
\* (start_action reaches the manager only through that call, line 167) and
\* the completions of the threads.
NextTgm ==
    \/ \E a \in Actions : StartActionThread(TheEngine, a)
    \/ \E t \in TaskIds : ActionProcExecute(t)
    \/ \E t \in TaskIds : ResolveLinks(t)

SpecTgm == InitFleet /\ [][NextTgm]_vars

\* One engine starting and running actions while their cancellation is
\* requested.
NextCancel ==
    \/ \E a \in Actions : StartActionLoad(TheEngine, a)
    \/ StartActionAcquire(TheEngine)
    \/ StartActionSpawn(TheEngine)
    \/ \E t \in TaskIds : ActionProcExecute(t)
    \/ \E t \in TaskIds : ResolveLinks(t)
    \/ \E a \in Actions : cancel_action(a)

SpecCancel == InitFleet /\ [][NextCancel]_vars

\* The same, with the green thread that is in action_wait scheduled fairly:
\* its eventlet.sleep returns and its next check of the flag is made.
SpecWait ==
    /\ Init /\ [][NextCtl]_vars
    /\ WF_vars(ActionWaitCheck) /\ WF_vars(reschedule)

\* The periodic tasks of one ThreadGroupManager while the clock advances.
Timers == UNION {timers[e] : e \in Engines}

NextTimer ==
    \/ Tick
    \/ \E i \in 1..MaxInterval, f \in Funcs : AddTimer(TheEngine, i, f)
    \/ \E tm \in Timers : TimerRun(TheEngine, tm)
    \/ StopTimers(TheEngine)

SpecTimer == InitFleet /\ [][NextTimer]_vars

\* ------------------------------------------------------------------ claims
Runners(a) == {t \in TaskIds : Active(t) /\ task[t].act = a}

\* The engines that hold action a: their acquire returned true and their
\* start_action has not returned, or they run its ActionProc.
Holders(a) ==
    {e \in Engines :
       \/ call[e].pc = "locked" /\ call[e].act = a
       \/ \E t \in Runners(a) : task[t].eng = e}

\* Two finished start_action calls of different engines for the same action,
\* which overlapped and both began while the action was unlocked.
RacedPair(e1, e2) ==
    /\ e1 # e2
    /\ call[e1].pc = "idle" /\ call[e2].pc = "idle"
    /\ call[e1].act # "none" /\ call[e1].act = call[e2].act
    /\ call[e1].raced /\ call[e2].raced
    /\ call[e1].unlocked /\ call[e2].unlocked

ReturnedTrue(e1, e2) == {e \in {e1, e2} : call[e].ret = "True"}

\* C1: whatever the interleaving of the engines' start_action calls, at most
\* one ActionProc of an action is active in the whole fleet, and at most one
\* engine holds the action after a true acquire: that engine is its owner.
C1_OneRunnerInFleet ==
    \A a \in Actions :
      /\ Cardinality(Runners(a)) <= 1
      /\ Cardinality(Holders(a)) <= 1
      /\ \A e \in Holders(a) : owner[a] = e

\* C1 witness: two engines raced for one action; one runs it, the other was
\* refused.
C1_Witness ==
    \E e1, e2 \in Engines :
      /\ RacedPair(e1, e2)
      /\ call[e1].ret = "True" /\ call[e2].ret = "False"
      /\ \E t \in Runners(call[e1].act) : task[t].eng = e1

\* C2 as claimed: of two start_action calls racing for an action, exactly one
\* returns true.
C2_ExactlyOneTrue ==
    \A e1, e2 \in Engines :
      RacedPair(e1, e2) => Cardinality(ReturnedTrue(e1, e2)) = 1

\* C2 amended: of two start_action calls racing for an unlocked action, at
\* most one returns true; exactly one does when the spawn of the call that
\* acquired the lock yields a handle, and neither does when that spawn fails.
C2_OneTrueUnlessSpawnFails ==
    \A e1, e2 \in Engines :
      RacedPair(e1, e2) =>
        /\ Cardinality(ReturnedTrue(e1, e2)) <= 1
        /\ ReturnedTrue(e1, e2) = {} <=>
             \E e \in {e1, e2} :
               /\ owner[call[e].act] = e
               /\ HasKey(threads[e], call[e].act)
               /\ MapGet(threads[e], call[e].act) = NoThread

\* C2 witness: a race that one call won with its thread started.
C2_Witness ==
    \E e1, e2 \in Engines :
      /\ RacedPair(e1, e2)
      /\ ReturnedTrue(e1, e2) = {e1}
      /\ call[e2].ret = "False"
      /\ owner[call[e1].act] = e1

\* C3: when the acquire of start_action fails, start_action returns False,
\* and the running-task map, the thread group, the threads, every status and
\* every lock are as they were; nothing is raised.
C3_AcquireFailureIsQuiet ==
    [][\A e \in Engines :
         (/\ call[e].pc = "loaded"
          /\ call'[e].pc # "loaded"
          /\ owner[call[e].act] # NoOwner)
         => /\ call'[e].pc = "idle"
            /\ call'[e].ret = "False"
            /\ UNCHANGED <<threads, group, task, status, owner>>]_vars

\* C3 witness: a start_action that returned False on an action another
\* engine runs.
C3_Witness ==
    \E e \in Engines :
      /\ call[e].pc = "idle" /\ call[e].ret = "False"
      /\ \E t \in Runners(call[e].act) : task[t].eng # e

\* C4 as claimed: when start_action acquired the lock and the spawn gave no
\* thread, the engine no longer owns the lock when start_action has returned
\* and the running-task map has no entry for the action.
C4_SpawnFailureReleasesLock ==
    [][\A e \in Engines :
         (/\ call[e].pc = "locked"
          /\ call'[e].pc = "idle"
          /\ task' = task)
         => /\ owner'[call[e].act] # e
            /\ ~HasKey(threads'[e], call[e].act)]_vars

\* The status ActionProc is to persist for each outcome of the step.
C5_Expected(result) ==
    CASE result = RES_OK -> <<"SUCCEEDED">>
      [] result = RES_ERROR -> <<"FAILED">>
      [] result = RES_CANCEL -> <<"CANCELLED">>
      [] result = RES_TIMEOUT -> <<>>

\* C5: ActionProc ends only on an outcome other than RETRY, and has then
\* written exactly the status of that outcome (none for TIMEOUT); while the
\* outcomes are RETRY it is still running and has written nothing; the
\* persisted status of an action is what its ActionProc wrote.
C5_OutcomeMapping ==
    \A t \in TaskIds :
      /\ task[t].pc = "start" => task[t].res = "none" /\ task[t].wrote = <<>>
      /\ task[t].pc = "retry" => task[t].res = RES_RETRY /\ task[t].wrote = <<>>
      /\ task[t].pc = "done" =>
           /\ task[t].res \in Results \ {RES_RETRY}
           /\ task[t].wrote = C5_Expected(task[t].res)
      /\ task[t].pc # "free" =>
           status[task[t].act] =
             IF task[t].wrote = <<>> THEN "INIT" ELSE task[t].wrote[1]

\* C5 witness: one ActionProc ended on TIMEOUT and wrote nothing, another
\* ended on ERROR and wrote FAILED.
C5_Witness ==
    \E t, u \in TaskIds :
      /\ task[t].pc = "done" /\ task[t].res = RES_TIMEOUT
      /\ status[task[t].act] = "INIT"
      /\ task[u].pc = "done" /\ task[u].res = RES_ERROR
      /\ status[task[u].act] = "FAILED"

\* The action started at start_time has a timeout and has run for longer.
TimedOut(a, start_time) ==
    timeout[a] # NoTimeout /\ now - start_time > timeout[a]

\* C6 as claimed: once the step of an action has returned RETRY and the
\* action has run for longer than its timeout, ActionProc does not call the
\* step again: it stays as it is, or ends on TIMEOUT with no status written.
C6_NoRetryPastTimeout ==
    [][\A t \in TaskIds :
         (task[t].pc = "retry" /\ TimedOut(task[t].act, task[t].start))
         => \/ task'[t] = task[t]
            \/ /\ task'[t].pc = "done"
               /\ task'[t].res = RES_TIMEOUT
               /\ task'[t].wrote = <<>>]_vars

\* C7: for an action that has timed out, action_control_flag gives timeout
\* whatever flag is pending, and action_cancelled, action_suspended and
\* action_resumed are all false.
C7_TimeoutBeforeFlags ==
    \A a \in Actions, s \in 0..now :
      TimedOut(a, s) =>
        /\ action_control_flag(a, s) = ACTION_TIMEOUT
        /\ ~action_cancelled(a, s)
        /\ ~action_suspended(a, s)
        /\ ~action_resumed(a, s)

\* C7 witness: action_wait has just read timeout for an action whose pending
\* flag is resume.
C7_Witness ==
    /\ waiter.pc = "sleeping"
    /\ waiter.at = now
    /\ TimedOut(waiter.act, waiter.start)
    /\ control[waiter.act] = ACTION_RESUME
    /\ waiter.read = ACTION_TIMEOUT

\* C8: an action is reported as timed out exactly when its timeout is set
\* and now - start_time is greater than it: not when they are equal, and
\* never when the timeout is unset; so for every read of action_wait.
C8_TimeoutPredicate ==
    /\ \A a \in Actions, s \in 0..now :
         /\ action_control_flag(a, s) = ACTION_TIMEOUT
              <=> (timeout[a] # NoTimeout /\ now - s > timeout[a])
         /\ timeout[a] # NoTimeout =>
              (action_timeout(a, s) <=> now - s > timeout[a])
    /\ waiter.read # "unread" =>
         (waiter.read = ACTION_TIMEOUT
            <=> /\ timeout[waiter.act] # NoTimeout
                /\ waiter.at - waiter.start > timeout[waiter.act])

\* C8 witness: a read made when now - start_time was equal to the timeout,
\* which did not give timeout.
C8_Witness ==
    /\ waiter.read \notin {"unread", ACTION_TIMEOUT}
    /\ timeout[waiter.act] # NoTimeout
    /\ waiter.at - waiter.start = timeout[waiter.act]
    /\ \E a \in Actions : timeout[a] = NoTimeout /\ now = MaxTime

\* C9: action_wait returns only on a read of the control flag that gave
\* resume, made while resume was the pending flag of the action.
C9_WaitReturnsOnResume ==
    [][(waiter.pc # "returned" /\ waiter'.pc = "returned")
       => /\ action_control_check(waiter.act) = ACTION_RESUME
          /\ waiter'.read = ACTION_RESUME
          /\ waiter'.act = waiter.act]_vars

\* C9 witness: action_wait has returned, after the action was started.
C9_Witness ==
    /\ waiter.pc = "returned"
    /\ waiter.read = ACTION_RESUME
    /\ waiter.at > waiter.start

\* C10 as claimed: when stop returns, every thread that was spawned in the
\* group has exited and its linked callbacks have run, and the running-task
\* map is empty.
C10_StopWaitsForAll ==
    [][\A e \in Engines :
         (stopping[e].pc # "returned" /\ stopping'[e].pc = "returned")
         => /\ \A t \in TaskIds :
                 task'[t].eng = e =>
                   task'[t].pc \in {"done", "killed"} /\ task'[t].resolved
            /\ threads'[e] = {}]_vars

\* The ActionProc threads of manager e for action a that have not exited.
LiveTasks(e, a) ==
    {t \in TaskIds : Active(t) /\ task[t].eng = e /\ task[t].act = a}

\* C11 as claimed: in one ThreadGroupManager, whatever the start_action and
\* start_action_thread calls and the thread completions so far, at most one
\* ActionProc thread of an action id is live.
C11_OneLiveTaskPerAction ==
    \A e \in Engines, a \in Actions : Cardinality(LiveTasks(e, a)) <= 1

\* C12 as claimed: once a thread started by start_action_thread has finished
\* and its callbacks have run, whatever its outcome, the lock of its action
\* is released: the action has no owner, unless a later start_action has
\* acquired it again since.
C12_LockReleasedWhenDone ==
    \A t \in TaskIds :
      task[t].resolved =>
        LET a == task[t].act IN
          \/ owner[a] = NoOwner
          \/ \E e \in Engines : call[e].pc = "locked" /\ call[e].act = a
          \/ \E u \in TaskIds \ {t} :
               task[u].pc # "free" /\ task[u].act = a /\ ~task[u].resolved

\* No entry of a running-task map holds a thread that has finished and whose
\* callbacks have run.
C13_NoEntryOfFinishedTask ==
    \A e \in Engines : \A p \in threads[e] :
      p[2] # NoThread => ~task[p[2]].resolved

\* An entry enters a running-task map only in a start_action_thread, which
\* has spawned its thread in that step (or got none); an entry leaves the
\* map only in the step that runs the callbacks of its own thread.
C13_EntryLifecycle ==
    \A e \in Engines :
      /\ \A p \in threads'[e] \ threads[e] :
           \/ p[2] = NoThread
           \/ /\ task[p[2]].pc = "free"
              /\ task'[p[2]] = NewTask(e, p[1], task'[p[2]].start)
      /\ \A p \in threads[e] \ threads'[e] :
           /\ p[2] # NoThread
           /\ Exited(p[2])
           /\ ~task[p[2]].resolved /\ task'[p[2]].resolved

C14_Written(a, value) == [control EXCEPT ![a] = value]

C15_StepsIgnoreFlag ==
    \A t \in TaskIds :
      Active(t) =>
        \A r \in Results : ENABLED (ActionProcExecute(t) /\ task'[t].res = r)

\* CANCELLED is persisted only by an ActionProc whose step returned CANCEL.
C15_CancelledOnlyOnCancel ==
    /\ \A t \in TaskIds :
         task[t].pc = "done" =>
           (task[t].wrote = <<"CANCELLED">> <=> task[t].res = RES_CANCEL)
    /\ \A a \in Actions :
         status[a] = "CANCELLED" =>
           \E t \in TaskIds : /\ task[t].act = a /\ task[t].pc = "done"
                               /\ task[t].res = RES_CANCEL

\* C15: cancellation is cooperative.  A cancel_action changes the flag and
\* nothing of the thread, the status or the lock; with cancel pending a
\* running ActionProc takes the same steps with the same outcomes as without
\* it; CANCELLED is persisted only when the step returned CANCEL.
C15_CancelIsCooperative ==
    /\ [](C15_StepsIgnoreFlag /\ C15_CancelledOnlyOnCancel)
    /\ [][control' # control =>
            UNCHANGED <<task, status, owner, threads, group, call>>]_vars

\* C15 witness: with cancel pending for both actions, the ActionProc of one
\* is retrying and the ActionProc of the other has ended with SUCCEEDED.
C15_Witness ==
    \E t, u \in TaskIds :
      /\ task[t].pc = "retry" /\ control[task[t].act] = ACTION_CANCEL
      /\ task[u].pc = "done" /\ task[u].res = RES_OK
      /\ control[task[u].act] = ACTION_CANCEL
      /\ status[task[u].act] = "SUCCEEDED"

\* C16 as claimed: after a step that returned RETRY, ActionProc sleeps for
\* wait_time before it calls the step again: the next execute() is not
\* called before wait_time has passed since the RETRY was returned.
C16_SleepsBetweenRetries ==
    [][\A t \in TaskIds :
         (task[t].pc = "retry" /\ task'[t] # task[t])
         => now >= task[t].at + WaitTime]_vars

\* An ActionProc in its retry loop has persisted nothing, and however many
\* RETRY results it has had, it can call the step again and get RETRY once
\* more, or any other outcome.
C17_RetryGoesOn ==
    \A t \in TaskIds :
      task[t].pc = "retry" =>
        /\ task[t].res = RES_RETRY /\ task[t].tries >= 1
        /\ task[t].wrote = <<>> /\ status[task[t].act] = "INIT"
        /\ \A r \in Results :
             ENABLED (ActionProcExecute(t) /\ task'[t].res = r)

\* C17: ActionProc bounds the retries by nothing.  It is done exactly when
\* a step has returned an outcome other than RETRY; as long as the step
\* returns RETRY it calls it again and persists no status.
C17_UnboundedRetry ==
    /\ []C17_RetryGoesOn
    /\ [][\A t \in TaskIds :
            (Active(t) /\ task'[t] # task[t]) =>
              \/ /\ task'[t].res = RES_RETRY /\ task'[t].pc = "retry"
                 /\ task'[t].tries = Retried(task[t].tries)
                 /\ status' = status
              \/ /\ task'[t].res \in Results \ {RES_RETRY}
                 /\ task'[t].pc = "done"]_vars

\* C17 witness: an ActionProc that has had MaxRetries RETRY results or more
\* is still in its loop, and another has ended.
C17_Witness ==
    \E t, u \in TaskIds :
      /\ task[t].pc = "retry" /\ task[t].tries = MaxRetries
      /\ status[task[t].act] = "INIT"
      /\ task[u].pc = "done"

\* C18 as claimed: a periodic task registered with add_timer(interval, func)
\* runs every interval, the value its caller passed, whatever that value is:
\* it is run once interval has passed since its last run, and each run comes
\* interval after the one before, until the timers are stopped.
C18_TimerRunsEveryInterval ==
    /\ [](\A e \in Engines : \A tm \in timers[e] :
            now >= tm.last + tm.interval => ENABLED TimerRun(e, tm))
    /\ [][\A e \in Engines : \A tm \in timers[e] : \A tn \in timers'[e] :
            (tn.func = tm.func /\ tn.last # tm.last)
            => tn.last = tm.last + tm.interval]_vars

\* action_wait is waiting on action a, whose pending flag is resume.
C19_WaitingResumed(a) ==
    /\ waiter.pc \in {"checking", "sleeping"}
    /\ waiter.act = a
    /\ control[a] = ACTION_RESUME

\* C19 as claimed: when resume is the pending flag of the action that
\* action_wait waits on, and the waiting thread is scheduled fairly,
\* action_wait returns unless the flag is overwritten first; so too for an
\* action that has a timeout and has run for longer.
C19_WaitReturnsAfterResume ==
    \A a \in Actions :
      C19_WaitingResumed(a) ~>
        (waiter.pc = "returned" \/ control[a] # ACTION_RESUME)

\* Every live ActionProc thread is the handle that the running-task map of
\* its manager holds under its action id.
C20_LiveTaskIsMapped ==
    \A t \in TaskIds :
      Active(t) => <<task[t].act, t>> \in threads[task[t].eng]

\* C20 as claimed: for any start_action_thread calls (repeated ones for an
\* action id whose earlier thread still runs included) and thread
\* completions in one manager, every live thread is the handle in the map
\* under its action id, and the completion callback of a thread finds its
\* action id in the map and removes its own handle: the pop does not fail
\* on a missing key, and does not remove the handle of another thread.
C20_MapTaskConsistency ==
    /\ []C20_LiveTaskIsMapped
    /\ [][\A t \in TaskIds :
            (~task[t].resolved /\ task'[t].resolved) =>
              /\ ~PopRaises(task[t].eng, task[t].act)
              /\ MapGet(threads[task[t].eng], task[t].act) = t]_vars

====
